---- MODULE Spec2Model ----
(***************************************************************************)
(* The fraud analysis pipeline of backend/agent/fraud_detector.py and      *)
(* backend/agent/gemini_image_analyzer.py: the image analyzer, the         *)
(* similarity search, the metadata analyzer, the decision maker, the       *)
(* orchestrator analyze_nft_for_fraud and its write-back to the nfts table.*)
(*                                                                         *)
(* Numbers.  Scores, confidences and similarities are fixed-point          *)
(* thousandths: 1000 stands for 1.0, 700 for 0.7.  All values used are     *)
(* multiples of 10, so 0.5*a + 0.3*b + 0.2*c is (5a + 3b + 2c) \div 10     *)
(* without rounding.                                                       *)
(*                                                                         *)
(* Python values.  A dict is a function with a set of strings as domain    *)
(* (d.get(k, x) is Get(d, k, x)).  A value that comes out of json.loads    *)
(* is tagged with its type, because the code tests types with isinstance.  *)
(***************************************************************************)
EXTENDS Integers, Sequences, FiniteSets, TLC

VARIABLES
    detector,      \* unified_fraud_detector: llm, gemini_analyzer, initialized
    analyzer,      \* gemini_analyzer: gemini_chat, embeddings, initialized
    env,           \* what is installed and reachable: requests/PIL, database layer
    nfts,          \* the nfts table: id -> row (embedding_vector absent = NULL)
    call,          \* arguments of the running call: nft_id, db_session
    pc,            \* position of the running call of analyze_nft_for_fraud
    run,           \* number of the running call (calls run one after another)
    image_analysis,
    similarity_results,
    metadata_analysis,
    fraud_decision,
    computed,      \* result as returned by the detector at fraud_detector.py:792
    returned,      \* what analyze_nft_for_fraud returned to its caller
    ans,           \* answers of the external services, replayed by a re-run
    history,       \* verdict returned by each finished call
    focus,         \* the stage whose answers are drawn from its wide set
    batch,          \* the running call of batch_analyze_and_embed
    extract,    \* the running call of extract_image_description
    conc,    \* two concurrent calls of analyze_nft_for_fraud
    fallback,    \* the inputs and the decision of a fallback heuristic
    listener    \* the SuiEventListener and its running callbacks

vars == << detector, analyzer, env, nfts, call, pc, run, image_analysis,
           similarity_results, metadata_analysis, fraud_decision, computed,
           returned, ans, history, focus, batch, extract, conc, fallback, listener >>

\* the variables of the calls of analyze_nft_for_fraud
pipeline == << detector, analyzer, env, nfts, call, pc, run, image_analysis,
               similarity_results, metadata_analysis, fraud_decision, computed,
               returned, ans, history, focus >>

---------------------------------------------------------------------------
(* Bounds of the model *)

\* calls of analyze_nft_for_fraud made one after another for the same NFT
MaxRuns == 2

\* rows of other NFTs in the nfts table
NumOthers == 2

\* longest input list of batch_analyze_and_embed
MaxBatch == 3

\* longest response of the description model, in characters
MaxDescription == 12

\* the scores given to the fallback heuristics are the multiples of
\* 1 / GridSteps in [0, 1]
GridSteps == 20

\* number of events delivered to the listener
MaxEvents == 3

---------------------------------------------------------------------------
(* Program constants *)

SimilarityThreshold == 700
DuplicateThreshold == 950
QueryLimit == 10
RepairHigh == 700
RepairLow == 300
NoModelFraudThreshold == 600
SafeFraudThreshold == 700
FallbackCap == 800
FlagHigh == 800
FlagMedium == 600
ReviewThreshold == 500
RiskHigh == 700
RiskMedium == 300
HeuristicRiskHigh == 600

\* gemini_image_analyzer.py:822
MinDescription == 10

RequiredIndicators ==
    { "low_effort_generation", "stolen_artwork", "ai_generated",
      "template_usage", "metadata_mismatch", "copyright_violation",
      "inappropriate_content" }

\* the indicators of the two literals in _analyze_image_with_gemini
FiveIndicators ==
    { "low_effort_generation", "stolen_artwork", "ai_generated",
      "template_usage", "metadata_mismatch" }

---------------------------------------------------------------------------
(* Python values *)

Bool(b) == [t |-> "bool", v |-> b]
Num(n) == [t |-> "num", v |-> n]
Str(s) == [t |-> "str", v |-> s]
NoneV == [t |-> "none"]
List(s) == [t |-> "list", v |-> s]
Dict(f) == [t |-> "dict", v |-> f]

IsBool(x) == x.t = "bool"
\* isinstance(x, (int, float)): bool is a subclass of int
IsNumber(x) == x.t \in {"num", "bool"}
IsStr(x) == x.t = "str"
IsDict(x) == x.t = "dict"
IsList(x) == x.t = "list"

NumVal(x) == IF x.t = "bool" THEN (IF x.v THEN 1000 ELSE 0) ELSE x.v

Truthy(x) ==
    CASE x.t = "bool" -> x.v
      [] x.t = "num"  -> x.v # 0
      [] x.t = "str"  -> x.v # ""
      [] x.t = "none" -> FALSE
      [] x.t = "list" -> Len(x.v) # 0
      [] x.t = "dict" -> DOMAIN x.v # {}

Get(d, k, default) == IF k \in DOMAIN d THEN d[k] ELSE default

\* d with d[k] = x (assignment to a key of a dict)
Put(d, k, x) == [j \in DOMAIN d \cup {k} |-> IF j = k THEN x ELSE d[j]]

\* dict.update
Update(d, e) == [j \in DOMAIN d \cup DOMAIN e |-> IF j \in DOMAIN e THEN e[j] ELSE d[j]]

Min(a, b) == IF a <= b THEN a ELSE b
Max(a, b) == IF a >= b THEN a ELSE b

---------------------------------------------------------------------------
(* Texts returned by the language model.                                   *)
(* A text is a sequence of tokens: "P" a line of prose, "FJ" the fence     *)
(* ```json, "F" the fence ```, "O" the JSON text of the value obj (an      *)
(* object between braces), "X" text between braces that is not JSON,       *)
(* "A" the JSON text of an array.  words is the set of keywords of         *)
(* _extract_structured_info_from_text that occur in the text.              *)

Fences == {"F", "FJ"}
BraceTokens == {"O", "X"}

Text(toks, obj, words) == [toks |-> toks, obj |-> obj, words |-> words]

\* json.loads of a span of the text
Loads(toks, obj) ==
    IF toks = <<"O">> THEN [ok |-> TRUE, value |-> obj]
    ELSE IF toks = <<"A">> THEN [ok |-> TRUE, value |-> List(<<Num(1)>>)]
    ELSE [ok |-> FALSE, value |-> NoneV]

SetMax(S) == CHOOSE x \in S : \A y \in S : y <= x
SetMin(S) == CHOOSE x \in S : \A y \in S : x <= y

\* str.find of a fence at or after position from; 0 when there is none
FindFence(toks, kinds, from) ==
    LET hits == {i \in from..Len(toks) : toks[i] \in kinds}
    IN  IF hits = {} THEN 0 ELSE SetMin(hits)

---------------------------------------------------------------------------
(* gemini_image_analyzer.py *)

Indicator(d, c, e) ==
    Dict([detected |-> Bool(d), confidence |-> Num(c), evidence |-> Str(e)])

NotDetected(names, evidence) ==
    Dict([n \in names |-> Indicator(FALSE, 0, evidence)])

\* the literal returned from the except clause of analyze_nft_image
AnalyzeImageErrorResult ==
    [ description |-> Str("Error analyzing image"),
      artistic_style |-> Str("unknown"),
      fraud_indicators |-> NotDetected(RequiredIndicators, "Analysis failed"),
      overall_fraud_score |-> Num(0),
      risk_level |-> Str("unknown"),
      recommendation |-> Str("Manual review required - Analysis error") ]

_create_error_response ==
    [ description |-> Str("Error analyzing image"),
      artistic_style |-> Str("unknown"),
      fraud_indicators |-> NotDetected(RequiredIndicators, "Analysis failed"),
      overall_fraud_score |-> Num(0),
      risk_level |-> Str("unknown"),
      recommendation |-> Str("Manual review required - Analysis error") ]

_create_error_analysis_result(message) ==
    [ description |-> Str("Analysis failed"),
      artistic_style |-> Str("unknown"),
      fraud_indicators |-> NotDetected(RequiredIndicators, "Analysis failed"),
      overall_fraud_score |-> Num(0),
      risk_level |-> Str("unknown"),
      recommendation |-> Str("Manual review required - Analysis failed"),
      embedding |-> List(<< >>),
      embedding_dimension |-> Num(0),
      error |-> Str(message) ]

_extract_description_from_text(text) ==
    IF \E i \in 1..Len(text.toks) : text.toks[i] = "P"
    THEN "description joined from the lines of the response"
    ELSE "Could not extract detailed description from response"

Keywords ==
    [ low_effort_generation |->
        {"low effort", "simple", "basic", "minimal", "lazy", "quick", "rushed", "poor quality"},
      stolen_artwork |->
        {"stolen", "plagiarized", "copied", "watermark", "signature", "copyright", "trademark"},
      ai_generated |->
        {"ai generated", "artificial", "generated", "synthetic", "computer", "algorithm", "machine"},
      template_usage |->
        {"template", "generic", "common", "standard", "mass-produced", "cookie cutter"},
      metadata_mismatch |->
        {"mismatch", "inconsistent", "doesn't match", "wrong", "incorrect"},
      copyright_violation |->
        {"copyright", "trademark", "brand", "logo", "disney", "marvel", "nintendo"},
      inappropriate_content |->
        {"inappropriate", "nsfw", "violent", "hate", "offensive", "explicit"} ]

PositiveKeywords ==
    [ low_effort_generation |-> {"detailed", "complex", "intricate", "careful", "professional"},
      stolen_artwork |-> {"original", "unique", "authentic", "genuine"},
      ai_generated |-> {"hand-drawn", "painted", "photographed", "scanned"},
      template_usage |-> {"unique", "original", "custom", "one-of-a-kind"},
      metadata_mismatch |-> {"matches", "consistent", "accurate", "correct"},
      copyright_violation |-> {"original", "public domain", "creative commons"},
      inappropriate_content |-> {"appropriate", "family-friendly", "safe", "clean"} ]

HeuristicIndicator(words, n) ==
    LET detected_negative == Keywords[n] \cap words # {}
        detected_positive == PositiveKeywords[n] \cap words # {}
    IN  IF detected_negative /\ ~detected_positive
          THEN Indicator(TRUE, 600, "Detected negative indicators")
        ELSE IF detected_positive /\ ~detected_negative
          THEN Indicator(FALSE, 800, "Detected positive indicators")
        ELSE IF detected_negative /\ detected_positive
          THEN Indicator(FALSE, 400, "Mixed indicators detected")
        ELSE Indicator(FALSE, 200, "No clear indicators detected")

_extract_structured_info_from_text(text) ==
    LET fraud_indicators == [n \in RequiredIndicators |-> HeuristicIndicator(text.words, n)]
        fraud_scores == { fraud_indicators[n].v.confidence.v :
                            n \in {m \in RequiredIndicators : fraud_indicators[m].v.detected.v} }
        overall_score == IF fraud_scores # {} THEN SetMax(fraud_scores) ELSE 0
        high == overall_score >= HeuristicRiskHigh
        medium == overall_score >= RiskMedium
    IN  [ description |-> Str(_extract_description_from_text(text)),
          artistic_style |-> Str("unknown"),
          fraud_indicators |-> Dict(fraud_indicators),
          overall_fraud_score |-> Num(overall_score),
          risk_level |-> Str(IF high THEN "high" ELSE IF medium THEN "medium" ELSE "low"),
          recommendation |-> Str(IF high THEN "FLAG" ELSE IF medium THEN "REVIEW" ELSE "ALLOW") ]

\* Strategy 1: the span from the first '{' to the last '}'
BraceSpan(toks) ==
    LET braces == {i \in 1..Len(toks) : toks[i] \in BraceTokens}
    IN  IF braces = {} THEN << >> ELSE SubSeq(toks, SetMin(braces), SetMax(braces))

\* Strategy 2: the first match of ```(?:json)?\s*(\{.*?\})\s*```
FencedMatch(toks) ==
    LET hits == {i \in 1..Len(toks) :
                    /\ i + 2 <= Len(toks)
                    /\ toks[i] \in Fences
                    /\ toks[i + 1] \in BraceTokens
                    /\ toks[i + 2] \in Fences}
    IN  IF hits = {} THEN << >> ELSE << toks[SetMin(hits) + 1] >>

\* Strategy 3: the text without the listed prefixes and suffixes
StripAffixes(toks) ==
    LET a == IF Len(toks) > 0 /\ toks[1] = "FJ" THEN Tail(toks) ELSE toks
        b == IF Len(a) > 0 /\ a[1] = "F" THEN Tail(a) ELSE a
    IN  IF Len(b) > 0 /\ b[Len(b)] = "F" THEN SubSeq(b, 1, Len(b) - 1) ELSE b

\* the JSON value the three strategies settle on: ok is "json_text" being set
ExtractJson(text) ==
    LET s1 == Loads(BraceSpan(text.toks), text.obj)
        s2 == Loads(FencedMatch(text.toks), text.obj)
        s3 == Loads(StripAffixes(text.toks), text.obj)
    IN  IF s1.ok THEN s1 ELSE IF s2.ok THEN s2 ELSE s3

BackfillIndicators(fi) ==
    [ n \in DOMAIN fi \cup RequiredIndicators |->
        IF n \notin DOMAIN fi THEN Indicator(FALSE, 0, "Not analyzed")
        ELSE IF ~IsDict(fi[n]) THEN Indicator(FALSE, 0, "Malformed data")
        ELSE fi[n] ]

FraudScores(fi) ==
    { NumVal(Get(fi[n].v, "confidence", Num(0))) :
        n \in { m \in DOMAIN fi :
                  /\ IsDict(fi[m])
                  /\ Truthy(Get(fi[m].v, "detected", NoneV))
                  /\ IsNumber(Get(fi[m].v, "confidence", Num(0))) } }

RiskLevel(fraud_score) ==
    IF fraud_score >= RiskHigh THEN "high"
    ELSE IF fraud_score >= RiskMedium THEN "medium"
    ELSE "low"

DefaultRecommendation(fraud_score) ==
    IF fraud_score < RiskMedium THEN "ALLOW"
    ELSE IF fraud_score < RiskHigh THEN "FLAG"
    ELSE "BLOCK"

\* lines 424-502: parsed is a dict.  The indicators are backfilled in the
\* dict that parsed.get("fraud_indicators", {}) returns: the dict of parsed
\* when the key is there, a fresh dict that is dropped when it is not.
ProcessParsed(parsed, text) ==
    LET p1 == IF Truthy(Get(parsed, "description", NoneV)) THEN parsed
              ELSE Put(parsed, "description", Str(_extract_description_from_text(text)))
        fraud_indicators == BackfillIndicators(Get(p1, "fraud_indicators", Dict(<< >>)).v)
        p2 == IF "fraud_indicators" \in DOMAIN p1
              THEN Put(p1, "fraud_indicators", Dict(fraud_indicators))
              ELSE p1
        fraud_scores == FraudScores(fraud_indicators)
        fraud_score == IF fraud_scores # {} THEN SetMax(fraud_scores) ELSE 0
        p3 == Update(p2, [ overall_fraud_score |-> Num(fraud_score),
                           risk_level |-> Str(RiskLevel(fraud_score)) ])
        defaults == [ artistic_style |-> Str("unknown"),
                      recommendation |-> Str(DefaultRecommendation(fraud_score)) ]
    IN  Update(defaults, p3)

_parse_gemini_response(text) ==
    LET j == ExtractJson(text)
    IN  IF j.ok /\ Truthy(j.value)
        THEN IF IsDict(j.value) /\ IsDict(Get(j.value.v, "fraud_indicators", Dict(<< >>)))
             THEN ProcessParsed(j.value.v, text)
             ELSE _create_error_response      \* AttributeError or TypeError, line 508
        ELSE _extract_structured_info_from_text(text)

---------------------------------------------------------------------------
(* fraud_detector.py: image stage *)

\* the literal _analyze_image_with_gemini returns when self.gemini_analyzer is None
AnalyzerNotAvailableResult ==
    [ description |-> Str("Image analysis - Gemini analyzer not available"),
      artistic_style |-> Str("unknown"),
      fraud_indicators |-> NotDetected(FiveIndicators, "Analysis not available"),
      overall_fraud_score |-> Num(0),
      risk_level |-> Str("unknown"),
      recommendation |-> Str("Manual review required - Gemini analyzer not available") ]

---------------------------------------------------------------------------
(* fraud_detector.py: similarity stage.  An embedding is a sequence of     *)
(* coordinates; the model uses one coordinate and the distance |a - b| in  *)
(* thousandths for the operator <=> of the database.                       *)

Distance(a, b) == IF a[1] < b[1] THEN b[1] - a[1] ELSE a[1] - b[1]

ZeroSimilarity ==
    [ similar_nfts |-> << >>,
      max_similarity |-> 0,
      is_duplicate |-> FALSE,
      similarity_count |-> 0,
      evidence_urls |-> << >> ]

\* the error result carrying the best similarity seen so far
ZeroSimilarityError_partial(message) ==
    Update(ZeroSimilarity, [error |-> message, max_similarity |-> 1000])

ZeroSimilarityError(message) == Update(ZeroSimilarity, [error |-> message])

\* WHERE embedding_vector IS NOT NULL
WhereNotNull(table) == {id \in DOMAIN table : "embedding_vector" \in DOMAIN table[id]}

Row(table, id, embedding) ==
    [ id |-> id,
      image_url |-> table[id].image_url,
      distance |-> Distance(table[id].embedding_vector, embedding) ]

\* ORDER BY embedding_vector <=> :embedding: rows at the same distance come
\* in any order
OrderBy(table, ids, embedding) ==
    { s \in [1..Cardinality(ids) -> ids] :
        /\ \A i, j \in DOMAIN s : i # j => s[i] # s[j]
        /\ \A i, j \in DOMAIN s :
             i < j => Distance(table[s[i]].embedding_vector, embedding)
                        <= Distance(table[s[j]].embedding_vector, embedding) }

Limit(s) == SubSeq(s, 1, Min(Len(s), QueryLimit))

\* the result sets the query of _check_similarity can return
QueryResults(table, embedding) ==
    { [i \in DOMAIN Limit(s) |-> Row(table, Limit(s)[i], embedding)] :
        s \in OrderBy(table, WhereNotNull(table), embedding) }

\* a stored vector of another dimension than the query makes <=> fail
QueryRaises(table) ==
    \E id \in WhereNotNull(table) : Len(table[id].embedding_vector) # 1

Keep(similarity) == similarity >= SimilarityThreshold

\* a duplicate from 0.95 on
IsDuplicate_atleast(max_similarity) == max_similarity >= DuplicateThreshold

IsDuplicate(max_similarity) == max_similarity > DuplicateThreshold

RECURSIVE SimilarityLoop(_, _)
SimilarityLoop(rows, acc) ==
    IF rows = << >> THEN acc
    ELSE LET row == Head(rows)
             similarity == 1000 - row.distance
         IN  SimilarityLoop(Tail(rows),
               IF Keep(similarity)
               THEN [ similar_nfts |-> Append(acc.similar_nfts,
                          [ nft_id |-> row.id,
                            metadata |-> [image_url |-> row.image_url],
                            similarity |-> similarity ]),
                      evidence_urls |-> Append(acc.evidence_urls, row.image_url),
                      max_similarity |-> Max(acc.max_similarity, similarity) ]
               ELSE acc)

SimilarityOf(rows) ==
    LET r == SimilarityLoop(rows,
                 [similar_nfts |-> << >>, evidence_urls |-> << >>, max_similarity |-> 0])
    IN  [ similar_nfts |-> r.similar_nfts,
          max_similarity |-> r.max_similarity,
          is_duplicate |-> IsDuplicate(r.max_similarity),
          similarity_count |-> Len(r.similar_nfts),
          evidence_urls |-> r.evidence_urls ]

---------------------------------------------------------------------------
(* fraud_detector.py: metadata stage *)

\* the no-model branch answering with the degraded result
NoModelMetadata_degraded ==
    [ quality_score |-> Num(500),
      suspicious_indicators |-> List(<< Str("Empty LLM response") >>),
      metadata_risk |-> Num(200) ]

NoModelMetadata ==
    [ quality_score |-> Num(700),
      suspicious_indicators |-> List(<< >>),
      metadata_risk |-> Num(100) ]

EmptyResponseMetadata ==
    [ quality_score |-> Num(500),
      suspicious_indicators |-> List(<< Str("Empty LLM response") >>),
      metadata_risk |-> Num(200),
      analysis |-> Str("Fallback analysis used due to empty response") ]

ParseFailedMetadata ==
    [ quality_score |-> Num(500),
      suspicious_indicators |-> List(<< Str("LLM response parsing failed") >>),
      metadata_risk |-> Num(200),
      analysis |-> Str("Fallback analysis used due to parsing error") ]

MetadataErrorResult ==
    [ quality_score |-> Num(500),
      suspicious_indicators |-> List(<< Str("Analysis error") >>),
      metadata_risk |-> Num(100),
      error |-> Str("error") ]

\* the extraction from markdown code blocks that _analyze_metadata and
\* _make_llm_fraud_decision share
StripFence(toks) ==
    LET has(k) == \E i \in 1..Len(toks) : toks[i] = k
        cut(open) ==
            LET json_start == FindFence(toks, {open}, 1) + 1
                json_end == FindFence(toks, Fences, json_start)
            IN  IF json_end # 0 THEN SubSeq(toks, json_start, json_end - 1) ELSE toks
    IN  IF has("FJ") THEN cut("FJ")
        ELSE IF has("F") THEN cut("F")
        ELSE toks

ValidateMetadata(m) ==
    LET m1 == IF IsNumber(Get(m, "quality_score", NoneV)) THEN m
              ELSE Put(m, "quality_score", Num(500))
        m2 == IF IsNumber(Get(m1, "metadata_risk", NoneV)) THEN m1
              ELSE Put(m1, "metadata_risk", Num(100))
    IN  IF IsList(Get(m2, "suspicious_indicators", NoneV)) THEN m2
        ELSE Put(m2, "suspicious_indicators", List(<< >>))

\* the metadata analyzer whose parse failures end in the outer except
MetadataFromResponse_unparsed(answer) ==
    IF answer.raises THEN MetadataErrorResult
    ELSE IF answer.text.toks = << >> THEN EmptyResponseMetadata
    ELSE LET j == Loads(StripFence(answer.text.toks), answer.text.obj)
         IN  IF j.ok /\ IsDict(j.value) THEN ValidateMetadata(j.value.v)
             ELSE MetadataErrorResult

\* _analyze_metadata once self.llm.ainvoke has answered
MetadataFromResponse(answer) ==
    IF answer.raises THEN MetadataErrorResult
    ELSE IF answer.text.toks = << >> THEN EmptyResponseMetadata
    ELSE LET j == Loads(StripFence(answer.text.toks), answer.text.obj)
         IN  IF j.ok /\ IsDict(j.value) THEN ValidateMetadata(j.value.v)
             ELSE ParseFailedMetadata

---------------------------------------------------------------------------
(* fraud_detector.py: decision stage *)

FStr(template, arg, suffix) ==
    [t |-> "str", v |-> template, arg |-> arg, suffix |-> suffix]

\* {x:.2f} of a value in thousandths, in hundredths
Format2f(x) == (x + 5) \div 10

\* the combined risk with the weight on similarity and image swapped
CombinedRisk_similarity(image_risk, similarity_risk, metadata_risk) ==
    (3 * image_risk + 5 * similarity_risk + 2 * metadata_risk) \div 10

CombinedRisk(image_risk, similarity_risk, metadata_risk) ==
    (5 * image_risk + 3 * similarity_risk + 2 * metadata_risk) \div 10

\* lines 583-601: the decision when self.llm is None
NoModelDecision(ia, sr, ma) ==
    LET image_risk == Get(ia, "overall_fraud_score", Num(0))
        similarity_risk == Get(sr, "max_similarity", 0)
        metadata_risk == Get(ma, "metadata_risk", Num(0))
        combined_risk == CombinedRisk(NumVal(image_risk), similarity_risk, NumVal(metadata_risk))
    IN  [ is_fraud |-> Bool(combined_risk > NoModelFraudThreshold),
          confidence_score |-> Num(combined_risk),
          flag_type |-> IF combined_risk > FlagHigh THEN Num(1)
                        ELSE IF combined_risk > FlagMedium THEN Num(2)
                        ELSE NoneV,
          reason |-> FStr("Fallback analysis - Combined risk: ", Format2f(combined_risk), ""),
          risk_breakdown |-> Dict([ image |-> image_risk,
                                    similarity |-> Num(similarity_risk),
                                    metadata |-> metadata_risk ]) ]

\* the safe fallback flagging from the high threshold only
_get_safe_fallback_decision_unflagged(ia, sr, ma) ==
    LET image_risk == NumVal(Get(ia, "overall_fraud_score", Num(0)))
        similarity_risk == Get(sr, "max_similarity", 0)
        metadata_risk == NumVal(Get(ma, "metadata_risk", Num(0)))
        combined_risk == CombinedRisk(image_risk, similarity_risk, metadata_risk)
    IN  [ is_fraud |-> Bool(combined_risk > SafeFraudThreshold),
          confidence_score |-> Num(Min(combined_risk, FallbackCap)),
          flag_type |-> IF combined_risk > FlagHigh THEN Num(1) ELSE NoneV,
          reason |-> FStr("Fallback analysis (LLM unavailable) - Combined risk: ",
                          Format2f(combined_risk), ""),
          recommendation |-> Str(IF combined_risk > ReviewThreshold
                                 THEN "MANUAL_REVIEW" ELSE "ALLOW"),
          fallback_used |-> Bool(TRUE) ]

_get_safe_fallback_decision(ia, sr, ma) ==
    LET image_risk == NumVal(Get(ia, "overall_fraud_score", Num(0)))
        similarity_risk == Get(sr, "max_similarity", 0)
        metadata_risk == NumVal(Get(ma, "metadata_risk", Num(0)))
        combined_risk == CombinedRisk(image_risk, similarity_risk, metadata_risk)
    IN  [ is_fraud |-> Bool(combined_risk > SafeFraudThreshold),
          confidence_score |-> Num(Min(combined_risk, FallbackCap)),
          flag_type |-> IF combined_risk > FlagHigh THEN Num(1)
                        ELSE IF combined_risk > FlagMedium THEN Num(2)
                        ELSE NoneV,
          reason |-> FStr("Fallback analysis (LLM unavailable) - Combined risk: ",
                          Format2f(combined_risk),
                          IF Get(sr, "is_duplicate", FALSE)
                          THEN " - Potential duplicate detected" ELSE ""),
          recommendation |-> Str(IF combined_risk > ReviewThreshold
                                 THEN "MANUAL_REVIEW" ELSE "ALLOW"),
          fallback_used |-> Bool(TRUE) ]

ErrorDecision ==
    [ is_fraud |-> Bool(FALSE),
      confidence_score |-> Num(0),
      flag_type |-> NoneV,
      reason |-> Str("Decision analysis error"),
      error |-> Str("error") ]

\* str.upper on the recommendations the model is asked for
Upper(s) ==
    CASE s = "allow" -> "ALLOW"
      [] s = "flag"  -> "FLAG"
      [] s = "block" -> "BLOCK"
      [] OTHER       -> s

\* the decision left as the model gave it
Repair_none(d, confidence_score, recommendation) == d

\* lines 688-697: the repair of is_fraud
Repair(d, confidence_score, recommendation) ==
    IF confidence_score >= RepairHigh /\ recommendation \in {"FLAG", "BLOCK"}
    THEN Put(d, "is_fraud", Bool(TRUE))
    ELSE IF confidence_score < RepairLow /\ recommendation = "ALLOW"
    THEN Put(d, "is_fraud", Bool(FALSE))
    ELSE d

\* lines 682-699: fraud_decision is the dict json.loads returned
ValidateDecision(d) ==
    LET d1 == IF IsBool(Get(d, "is_fraud", NoneV)) THEN d
              ELSE Put(d, "is_fraud", Bool(FALSE))
        d2 == IF IsNumber(Get(d1, "confidence_score", NoneV)) THEN d1
              ELSE Put(d1, "confidence_score", Num(0))
    IN  Repair(d2, NumVal(d2.confidence_score),
               Upper(Get(d2, "recommendation", Str("")).v))

\* the decision maker without its outer except: a failed invocation is
\* handled like a response that could not be parsed
DecisionFromResponse_unguarded(answer, ia, sr, ma) ==
    IF answer.raises \/ answer.text.toks = << >>
    THEN _get_safe_fallback_decision(ia, sr, ma)
    ELSE LET j == Loads(StripFence(answer.text.toks), answer.text.obj)
         IN  IF /\ j.ok
                /\ IsDict(j.value)
                /\ IsStr(Get(j.value.v, "recommendation", Str("")))
             THEN ValidateDecision(j.value.v)
             ELSE _get_safe_fallback_decision(ia, sr, ma)

\* the decision maker whose parse failures end in the outer except
DecisionFromResponse_unparsed(answer, ia, sr, ma) ==
    IF answer.raises \/ answer.text.toks = << >> THEN ErrorDecision
    ELSE LET j == Loads(StripFence(answer.text.toks), answer.text.obj)
         IN  IF /\ j.ok
                /\ IsDict(j.value)
                /\ IsStr(Get(j.value.v, "recommendation", Str("")))
             THEN ValidateDecision(j.value.v)
             ELSE ErrorDecision

\* _make_llm_fraud_decision once self.llm.ainvoke has answered
DecisionFromResponse(answer, ia, sr, ma) ==
    IF answer.raises THEN ErrorDecision
    ELSE IF answer.text.toks = << >> THEN _get_safe_fallback_decision(ia, sr, ma)
    ELSE LET j == Loads(StripFence(answer.text.toks), answer.text.obj)
         IN  IF /\ j.ok
                /\ IsDict(j.value)
                /\ IsStr(Get(j.value.v, "recommendation", Str("")))
             THEN ValidateDecision(j.value.v)
             ELSE _get_safe_fallback_decision(ia, sr, ma)

---------------------------------------------------------------------------
(* fraud_detector.py: the orchestrator and the write-back *)

\* lines 163-194: the result of UnifiedFraudDetector.analyze_nft_for_fraud
DetectorResult(ia, sr, ma, fd, now) ==
    [ is_fraud |-> Get(fd, "is_fraud", Bool(FALSE)),
      confidence_score |-> Get(fd, "confidence_score", Num(0)),
      flag_type |-> Get(fd, "flag_type", NoneV),
      reason |-> Get(fd, "reason", Str("Analysis completed")),
      analysis_details |->
        [ image_analysis |->
            [ description |-> Get(ia, "description", Str("")),
              artistic_style |-> Get(ia, "artistic_style", Str("")),
              fraud_indicators |-> Get(ia, "fraud_indicators", Dict(<< >>)),
              overall_fraud_score |-> Get(ia, "overall_fraud_score", Num(0)),
              risk_level |-> Get(ia, "risk_level", Str("unknown")),
              recommendation |-> Get(ia, "recommendation", Str("")),
              embedding |-> Get(ia, "embedding", List(<< >>)),
              embedding_dimension |-> Get(ia, "embedding_dimension", Num(0)) ],
          similarity_results |-> sr,
          metadata_analysis |-> ma,
          llm_decision |-> fd,
          analysis_timestamp |-> now ] ]

\* lines 842-910: the result returned from the except clause of the
\* module-level analyze_nft_for_fraud
UnifiedErrorResult(now) ==
    [ is_fraud |-> Bool(FALSE),
      confidence_score |-> Num(0),
      flag_type |-> NoneV,
      reason |-> Str("Analysis error"),
      analysis_details |->
        [ image_analysis |->
            [ description |-> Str("Error in unified analysis"),
              artistic_style |-> Str("unknown"),
              fraud_indicators |-> NotDetected(RequiredIndicators, "Analysis failed"),
              overall_fraud_score |-> Num(0),
              risk_level |-> Str("unknown"),
              recommendation |-> Str("Manual review required"),
              embedding |-> List(<< >>),
              embedding_dimension |-> Num(0) ],
          similarity_results |-> [error |-> Str("error")],
          metadata_analysis |-> [error |-> Str("error")],
          llm_decision |-> [error |-> Str("error")],
          analysis_timestamp |-> now,
          error |-> Str("error") ] ]

\* lines 802-809: the argument of nft.analysis_details.update
WriteBackFields(result, now) ==
    [ status |-> Str("completed"),
      analyzed_at |-> now,
      is_fraud |-> Get(result, "is_fraud", Bool(FALSE)),
      confidence_score |-> Get(result, "confidence_score", Num(0)),
      flag_type |-> Get(result, "flag_type", NoneV),
      reason |-> Get(result, "reason", Str("Analysis completed")) ]

\* lines 819-822: the row after nft.embedding_vector is assigned
AssignEmbedding(row, result) ==
    IF /\ "image_analysis" \in DOMAIN Get(result, "analysis_details", << >>)
       /\ "embedding" \in DOMAIN result.analysis_details.image_analysis
    THEN Put(row, "embedding_vector", result.analysis_details.image_analysis.embedding.v)
    ELSE row

\* models/database.py:52, Vector(768): with pgvector the column refuses a
\* value of another dimension when the session flushes; Text (the fallback
\* of models/database.py:20) takes any value
CommitRefused(row, pgvector) ==
    pgvector /\ "embedding_vector" \in DOMAIN row /\ Len(row.embedding_vector) # 1

\* lines 795-837, with the record behind nft_id in table.  a says which
\* database calls raise.  nft.analysis_details is the dict result holds
\* under "analysis_details": update changes both.
WriteBack(result, nft_id, table, a, pgvector, now) ==
    LET failed(r) == [ result |-> IF a.rollback_raises THEN UnifiedErrorResult(now) ELSE r,
                       table |-> table ]
    IN  IF a.lookup_raises THEN failed(result)
        ELSE IF nft_id \notin DOMAIN table THEN [result |-> result, table |-> table]
        ELSE LET details == Update(Get(result, "analysis_details", << >>),
                                   WriteBackFields(result, now))
                 updated == Put(result, "analysis_details", details)
                 row == AssignEmbedding(Put(table[nft_id], "analysis_details", details), updated)
             IN  IF a.commit_raises \/ CommitRefused(row, pgvector)
                 THEN failed(updated)
                 ELSE [result |-> updated, table |-> [table EXCEPT ![nft_id] = row]]

---------------------------------------------------------------------------
(* The environment: what the external services answer.  The answers of     *)
(* the stage named by focus are drawn from its wide set, the answers of    *)
(* the other stages from a narrow one, so that every stage's cases are     *)
(* explored without the product of all of them.                            *)

Focuses == {"image", "similarity", "metadata", "decision", "persist"}

Subject == 0
Others == 1..NumOthers
NoId == -1

Answer(text) == [raises |-> FALSE, text |-> text]
Raises == [raises |-> TRUE, text |-> Text(<< >>, NoneV, {})]
Bare(obj) == Answer(Text(<<"O">>, obj, {}))

ModelIndicator(d, c) == Indicator(d, c, "evidence from the model")
CleanIndicators == [n \in RequiredIndicators |-> ModelIndicator(FALSE, 0)]
StolenDetected(c) == [CleanIndicators EXCEPT !["stolen_artwork"] = ModelIndicator(TRUE, c)]

ImageObject(fi) ==
    Dict([ description |-> Str("description from the model"),
           fraud_indicators |-> fi,
           overall_fraud_score |-> Num(500),
           risk_level |-> Str("low") ])

IndicatorMaps ==
    { Dict(StolenDetected(c)) : c \in {300, 700} }
    \cup { Dict([n \in FiveIndicators |-> CleanIndicators[n]]),
           Dict([n \in RequiredIndicators \cup {"wash_trading"} |-> ModelIndicator(FALSE, 0)]),
           Dict([CleanIndicators EXCEPT !["ai_generated"] = Str("not detected")]),
           Dict([CleanIndicators EXCEPT !["ai_generated"] = Dict([detected |-> Bool(TRUE)])]),
           Dict([CleanIndicators EXCEPT !["ai_generated"] =
                    Dict([detected |-> Str("false"), confidence |-> Num(900)])]),
           List(<< >>) }

NarrowVision ==
    { Bare(ImageObject(Dict(CleanIndicators))),
      Bare(ImageObject(Dict(StolenDetected(1000)))) }

WideVision ==
    NarrowVision
    \cup { Raises }
    \cup { Bare(ImageObject(fi)) : fi \in IndicatorMaps }
    \cup { Bare(Dict([description |-> Str("description from the model")])),
           Bare(Dict([fraud_indicators |-> Dict(StolenDetected(700))])),
           Bare(Dict(<< >>)) }
    \cup { Answer(Text(toks, ImageObject(Dict(StolenDetected(700))), {})) :
             toks \in { <<"P", "FJ", "O", "F", "P">>, <<"P", "O", "P">>, <<"FJ", "O", "F">>,
                        <<"O", "P", "FJ", "X", "F">>, <<"A">>, <<"X">> } }
    \cup { Answer(Text(<<"P">>, NoneV, w)) :
             w \in { {}, {"stolen"}, {"stolen", "original"}, {"original"}, {"copyright"} } }

VisionAnswers(f) == IF f = "image" THEN WideVision ELSE NarrowVision

DownloadAnswers(f) == IF f \in {"image", "persist"} THEN {"ok", "fail"} ELSE {"ok"}

EmbedAnswers(f) ==
    { [raises |-> FALSE, vec |-> <<0>>] }
    \cup (IF f \in {"image", "persist"} THEN { [raises |-> TRUE, vec |-> << >>] } ELSE {})

DbAnswers(f) ==
    IF f = "similarity" THEN {"session", "no_dependencies", "no_session"} ELSE {"session"}

QueryAnswers(f) == IF f = "similarity" THEN {"rows", "raises"} ELSE {"rows"}

MetadataObject(risk) ==
    Dict([ quality_score |-> Num(800),
           suspicious_indicators |-> List(<< >>),
           metadata_risk |-> risk,
           analysis |-> Str("analysis from the model") ])

NarrowMetadata ==
    { Bare(MetadataObject(Num(1000))), Answer(Text(<< >>, NoneV, {})) }

WideMetadata ==
    NarrowMetadata
    \cup { Raises, Answer(Text(<<"P">>, NoneV, {})) }
    \cup { Bare(MetadataObject(r)) : r \in {Num(50), Str("high"), Bool(TRUE)} }
    \cup { Bare(Dict([analysis |-> Str("analysis from the model")])),
           Bare(List(<< Num(1) >>)),
           Answer(Text(<<"FJ", "O", "F">>, MetadataObject(Num(50)), {})),
           Answer(Text(<<"P", "F", "O", "F">>, MetadataObject(Num(50)), {})),
           Answer(Text(<<"P", "O">>, MetadataObject(Num(50)), {})) }

MetadataAnswers(f) == IF f = "metadata" THEN WideMetadata ELSE NarrowMetadata

Verdict(is_fraud, confidence_score, recommendation, flag_type) ==
    Dict([ is_fraud |-> is_fraud,
           confidence_score |-> confidence_score,
           flag_type |-> flag_type,
           reason |-> Str("reason from the model"),
           recommendation |-> recommendation ])

NarrowDecisions ==
    { Bare(Verdict(Bool(TRUE), Num(900), Str("FLAG"), Num(1))),
      Answer(Text(<< >>, NoneV, {})) }

WideDecisions ==
    NarrowDecisions
    \cup { Raises, Answer(Text(<<"P">>, NoneV, {})) }
    \cup { Bare(Verdict(i, c, r, NoneV)) :
             i \in {Bool(TRUE), Bool(FALSE), Str("yes")},
             c \in {Num(290), Num(300), Num(690), Num(700), Str("high")},
             r \in {Str("ALLOW"), Str("FLAG"), Str("BLOCK"), Str("flag"), Str("MANUAL_REVIEW"), NoneV} }
    \cup { Bare(Dict([ is_fraud |-> Bool(FALSE), confidence_score |-> Num(900) ])),
           Bare(Verdict(Bool(TRUE), Num(1500), Str("BLOCK"), Num(7))),
           Bare(List(<< Num(1) >>)) }
    \cup { Answer(Text(toks, Verdict(Bool(FALSE), Num(800), Str("BLOCK"), Num(2)), {})) :
             toks \in { <<"P", "FJ", "O", "F", "P">>, <<"P", "F", "O", "F">>,
                        <<"P", "O", "P">>, <<"FJ", "O">>, <<"FJ", "X", "F">> } }

DecisionAnswers(f) == IF f = "decision" THEN WideDecisions ELSE NarrowDecisions

PersistAnswers(f) ==
    IF f = "persist"
    THEN [lookup_raises : BOOLEAN, commit_raises : BOOLEAN, rollback_raises : BOOLEAN]
    ELSE { [lookup_raises |-> FALSE, commit_raises |-> FALSE, rollback_raises |-> FALSE] }

\* the arguments nft_id and db_session of the callers: api/nft.py:202 and
\* api/marketplace.py:1089 pass both, agent/listener.py:91 passes neither
Calls(f) ==
    { [nft_id |-> Subject, db_session |-> TRUE] }
    \cup (IF f = "persist" THEN { [nft_id |-> NoId, db_session |-> FALSE] } ELSE {})

\* the rows of the nfts table before the first call
NullRow(id) == [image_url |-> id, analysis_details |-> [status |-> Str("pending")]]
VectorRow(id, vec) == Put(NullRow(id), "embedding_vector", vec)

SubjectRows(f) ==
    { NullRow(Subject), VectorRow(Subject, <<0>>) }
    \cup (IF f = "similarity" THEN { VectorRow(Subject, <<50>>) } ELSE {})

OtherRows(f, id) ==
    { NullRow(id) }
    \cup (IF f = "similarity"
          THEN CASE id = 1 -> { VectorRow(id, v) : v \in { <<0>>, <<40>>, <<50>> } }
                 [] id = 2 -> { VectorRow(id, v) : v \in { <<50>>, <<300>>, <<310>> } }
                 [] OTHER  -> { VectorRow(id, <<300>>) }
          ELSE IF id = 1 THEN { VectorRow(id, <<0>>) } ELSE {})

Tables(f) ==
    { t \in [ {Subject} \cup Others -> UNION { OtherRows(f, id) : id \in Others } \cup SubjectRows(f) ] :
        /\ t[Subject] \in SubjectRows(f)
        /\ \A id \in Others : t[id] \in OtherRows(f, id) }
    \cup (IF f = "persist"
          THEN { [id \in Others |-> NullRow(id)] }
          ELSE {})

---------------------------------------------------------------------------
(* clip_embeddings.py: DescriptionEmbeddingService.batch_analyze_and_embed. *)
(* The three input lists are modelled by their lengths; a task of the       *)
(* gather ends stored, failed or with an exception.                         *)

BatchIdle ==
    [ pc |-> "idle", image_urls |-> 0, nft_ids |-> 0, metadata_list |-> 0,
      results |-> << >>, out |-> << >> ]

\* lines 183-189: exceptions of the tasks become False
SuccessResult(outcome) == outcome = "stored"

\* line 171: the test that raises ValueError
LengthsDiffer(image_urls, nft_ids, metadata_list) ==
    image_urls # nft_ids \/ image_urls # metadata_list

\* line 196: [False] * len(image_urls)
AllFalse(n) == [i \in 1..n |-> FALSE]

\* the call up to asyncio.gather; the ValueError of line 172 is raised
\* inside the try and caught by the except clause of line 194
BatchCall ==
    /\ batch.pc = "idle"
    /\ \E a, b, c \in 0..MaxBatch :
         batch' = IF LengthsDiffer(a, b, c)
                  THEN [ pc |-> "returned", image_urls |-> a, nft_ids |-> b,
                         metadata_list |-> c, results |-> << >>, out |-> AllFalse(a) ]
                  ELSE [ pc |-> "gather", image_urls |-> a, nft_ids |-> b,
                         metadata_list |-> c, results |-> << >>, out |-> << >> ]
    /\ UNCHANGED << pipeline, extract, conc, fallback, listener >>

\* one task of the gather ends
BatchTask ==
    /\ batch.pc = "gather"
    /\ Len(batch.results) < batch.image_urls
    /\ \E outcome \in {"stored", "failed", "exception"} :
         batch' = [batch EXCEPT !.results = Append(@, outcome)]
    /\ UNCHANGED << pipeline, extract, conc, fallback, listener >>

\* lines 181-192: the list of success indicators is returned
BatchReturn ==
    /\ batch.pc = "gather"
    /\ Len(batch.results) = batch.image_urls
    /\ batch' = [batch EXCEPT !.pc = "returned",
                              !.out = [i \in DOMAIN batch.results |->
                                         SuccessResult(batch.results[i])]]
    /\ UNCHANGED << pipeline, extract, conc, fallback, listener >>

---------------------------------------------------------------------------
(* gemini_image_analyzer.py: GeminiImageAnalyzer.extract_image_description. *)
(* The response of the model is a sequence of characters, " " for          *)
(* whitespace and "x" for anything else.                                   *)

Responses == UNION { [1..n -> {" ", "x"}] : n \in 0..MaxDescription }

RECURSIVE LStrip(_)
LStrip(s) == IF s # << >> /\ Head(s) = " " THEN LStrip(Tail(s)) ELSE s

RECURSIVE RStrip(_)
RStrip(s) ==
    IF s # << >> /\ s[Len(s)] = " " THEN RStrip(SubSeq(s, 1, Len(s) - 1)) ELSE s

\* str.strip
Strip(s) == RStrip(LStrip(s))

\* line 822: description and len(description) > 10
LongEnough(description) == description # << >> /\ Len(description) > MinDescription

ExtractIdle ==
    [ pc |-> "idle", answered |-> FALSE, content |-> << >>, out |-> << >>,
      error |-> "" ]

\* lines 784-794: the image is downloaded and the chat model looked up
ExtractCall ==
    /\ extract.pc = "idle"
    /\ \E image_data, gemini_chat \in BOOLEAN :
         extract' =
           IF ~image_data
           THEN [extract EXCEPT !.pc = "raised", !.error = "Could not download image"]
           ELSE IF ~gemini_chat
           THEN [extract EXCEPT !.pc = "raised", !.error = "Gemini chat not available"]
           ELSE [extract EXCEPT !.pc = "wait_description"]
    /\ UNCHANGED << pipeline, batch, conc, fallback, listener >>

\* lines 814-826: the model answers and the description is checked
ExtractRespond ==
    /\ extract.pc = "wait_description"
    /\ \E content \in Responses :
         LET description == Strip(content)
         IN  extract' = IF LongEnough(description)
                        THEN [ pc |-> "returned", answered |-> TRUE,
                               content |-> content, out |-> description,
                               error |-> "" ]
                        ELSE [ pc |-> "raised", answered |-> TRUE,
                               content |-> content, out |-> << >>,
                               error |-> "Empty or too short description from Gemini" ]
    /\ UNCHANGED << pipeline, batch, conc, fallback, listener >>

\* line 814: the invocation of the model raises
ExtractFail ==
    /\ extract.pc = "wait_description"
    /\ extract' = [extract EXCEPT !.pc = "raised", !.error = "ainvoke raised"]
    /\ UNCHANGED << pipeline, batch, conc, fallback, listener >>

---------------------------------------------------------------------------
(* fraud_detector.py: the two fallback heuristics of the decision maker,   *)
(* applied to scores of the three stages drawn from a grid over [0, 1].    *)

Grid == { k * (1000 \div GridSteps) : k \in 0..GridSteps } \cup {1000}

FallbackIdle ==
    [ path |-> "none", image_risk |-> 0, similarity_risk |-> 0, metadata_risk |-> 0,
      decision |-> << >> ]

\* the results of the three stages as far as the heuristics read them
ScoredImage(image_risk) == [overall_fraud_score |-> Num(image_risk)]
ScoredSimilarity(similarity_risk) ==
    [max_similarity |-> similarity_risk, is_duplicate |-> IsDuplicate(similarity_risk)]
ScoredMetadata(metadata_risk) == [metadata_risk |-> Num(metadata_risk)]

\* lines 583-601: the decision without a language model
FallbackNoModel ==
    /\ fallback.path = "none"
    /\ \E i, s, m \in Grid :
         fallback' = [ path |-> "no_model", image_risk |-> i, similarity_risk |-> s,
                       metadata_risk |-> m,
                       decision |-> NoModelDecision(ScoredImage(i), ScoredSimilarity(s),
                                                    ScoredMetadata(m)) ]
    /\ UNCHANGED << pipeline, batch, extract, conc, listener >>

\* lines 664-666 and 701-705: the decision after an empty or unparsable response
FallbackParseFailure ==
    /\ fallback.path = "none"
    /\ \E i, s, m \in Grid :
         fallback' = [ path |-> "parse_failure", image_risk |-> i, similarity_risk |-> s,
                       metadata_risk |-> m,
                       decision |-> _get_safe_fallback_decision(ScoredImage(i),
                                                                ScoredSimilarity(s),
                                                                ScoredMetadata(m)) ]
    /\ UNCHANGED << pipeline, batch, extract, conc, listener >>

---------------------------------------------------------------------------
(* listener.py: SuiEventListener.process_nft_event.  Every delivered event *)
(* runs the callback as a task of the event loop; a task gives way to the  *)
(* others at its awaits only.  Strings are sequences of characters.        *)

\* event_data.get('nft_id', '') and event_data.get('creator', '')
Events ==
    [ nft_id : { << >>, <<"a">>, <<"a", "_", "b">> },
      creator : { <<"c">>, <<"b", "_", "c">> } ]

\* line 58: f"{nft_id}_{creator}"
EventId(event_data) == event_data.nft_id \o <<"_">> \o event_data.creator

EventIds == { EventId(e) : e \in Events }

ListenerIdle ==
    [ processed_events |-> {},
      tasks |-> << >>,
      started |-> [id \in EventIds |-> 0] ]

\* sui_client calls the callback with an event
Deliver ==
    /\ Len(listener.tasks) < MaxEvents
    /\ \E event_data \in Events :
         listener' = [listener EXCEPT
                        !.tasks = Append(@, [event_data |-> event_data, pc |-> "called"])]
    /\ UNCHANGED << pipeline, batch, extract, conc, fallback >>

\* the callback without the test of processed_events
ProcessStart_unchecked(t) ==
    /\ t \in DOMAIN listener.tasks
    /\ listener.tasks[t].pc = "called"
    /\ listener' = [listener EXCEPT
                      !.tasks[t].pc = IF listener.tasks[t].event_data.nft_id = << >>
                                      THEN "returned" ELSE "get_nft_data"]
    /\ UNCHANGED << pipeline, batch, extract, conc, fallback >>

\* lines 57-75: from the call to the first await
ProcessStart(t) ==
    /\ t \in DOMAIN listener.tasks
    /\ listener.tasks[t].pc = "called"
    /\ LET event_data == listener.tasks[t].event_data
           event_id == EventId(event_data)
       IN  IF event_id \in listener.processed_events
           THEN listener' = [listener EXCEPT !.tasks[t].pc = "skipped"]
           ELSE listener' = [listener EXCEPT
                               !.processed_events = @ \cup {event_id},
                               !.tasks[t].pc = IF event_data.nft_id = << >>
                                               THEN "returned" ELSE "get_nft_data"]
    /\ UNCHANGED << pipeline, batch, extract, conc, fallback >>

\* lines 75-91: sui_client.get_nft_data answers; with the data the fraud
\* analysis is started
GetNftData(t) ==
    /\ t \in DOMAIN listener.tasks
    /\ listener.tasks[t].pc = "get_nft_data"
    /\ \E nft_data \in {"data", "none", "raises"} :
         listener' =
           CASE nft_data = "data" ->
                  [listener EXCEPT
                     !.tasks[t].pc = "analyzing",
                     !.started[EventId(listener.tasks[t].event_data)] = @ + 1]
             [] nft_data = "none" -> [listener EXCEPT !.tasks[t].pc = "returned"]
             [] OTHER -> [listener EXCEPT !.tasks[t].pc = "failed"]
    /\ UNCHANGED << pipeline, batch, extract, conc, fallback >>

\* lines 91-131: the analysis and what follows it end, or raise
AnalysisEnds(t) ==
    /\ t \in DOMAIN listener.tasks
    /\ listener.tasks[t].pc = "analyzing"
    /\ \E outcome \in {"returned", "failed"} :
         listener' = [listener EXCEPT !.tasks[t].pc = outcome]
    /\ UNCHANGED << pipeline, batch, extract, conc, fallback >>

---------------------------------------------------------------------------
(* The state machine: calls of the module-level analyze_nft_for_fraud for  *)
(* the subject NFT, one after another.  A call stops at each external      *)
(* call (pc = "wait_...") until the service answers.                       *)

Pending == << >>

\* the two concurrent calls, and the ids of their NFTs
Tasks == {1, 2}

\* no call of the two has started
ConcIdle ==
    [ pc |-> [c \in Tasks |-> "idle"],
      unified_fraud_detector |-> [llm |-> FALSE, initialized |-> FALSE],
      pgvector |-> TRUE,
      table |-> [c \in Tasks |-> NullRow(c)],
      image_analysis |-> [c \in Tasks |-> Pending],
      similarity_results |-> [c \in Tasks |-> Pending],
      metadata_analysis |-> [c \in Tasks |-> Pending],
      result |-> [c \in Tasks |-> Pending],
      returned |-> [c \in Tasks |-> Pending],
      wrote |-> [c \in Tasks |-> {}] ]

NoAnswers ==
    [ service \in {"download", "vision", "embed", "db", "query", "metadata",
                    "decision", "persist"} |-> {} ]

\* a re-run gets the answers of the first run from the services it asked
Replay(service, a) == run = 1 \/ ans[service] = {} \/ a \in ans[service]

Record(service, a) == ans' = [ans EXCEPT ![service] = {a}]

Init ==
    /\ focus \in Focuses
    /\ env \in [ google_api_key : BOOLEAN,
                 pgvector : IF focus = "persist" THEN BOOLEAN ELSE {TRUE} ]
    /\ detector = [llm |-> FALSE, gemini_analyzer |-> FALSE, initialized |-> FALSE]
    /\ analyzer = [gemini_chat |-> FALSE, embeddings |-> FALSE, initialized |-> FALSE]
    /\ nfts \in Tables(focus)
    /\ call = [nft_id |-> NoId, db_session |-> FALSE]
    /\ pc = "idle"
    /\ run = 0
    /\ image_analysis = Pending
    /\ similarity_results = Pending
    /\ metadata_analysis = Pending
    /\ fraud_decision = Pending
    /\ computed = Pending
    /\ returned = Pending
    /\ ans = NoAnswers
    /\ history = << >>
    /\ batch = BatchIdle
    /\ extract = ExtractIdle
    /\ conc = ConcIdle
    /\ fallback = FallbackIdle
    /\ listener = ListenerIdle

\* UnifiedFraudDetector.initialize and GeminiImageAnalyzer.initialize: a
\* model is there when the key is configured and its constructor does not
\* raise; get_gemini_analyzer returns the global analyzer
Initialized(d, a) ==
    /\ d.initialized /\ a.initialized
    /\ d.gemini_analyzer
    /\ ~env.google_api_key => ~d.llm /\ ~a.gemini_chat /\ ~a.embeddings

\* fraud_detector.py:784-792: the call starts, initializing the detector
\* when it is not initialized
Start ==
    /\ pc = "idle"
    /\ run < MaxRuns
    /\ run' = run + 1
    /\ \E c \in Calls(focus) : (run = 0 \/ c = call) /\ call' = c
    /\ IF detector.initialized
       THEN UNCHANGED << detector, analyzer >>
       ELSE /\ detector' \in [llm : BOOLEAN, gemini_analyzer : {TRUE}, initialized : {TRUE}]
            /\ analyzer' \in [gemini_chat : BOOLEAN, embeddings : BOOLEAN, initialized : {TRUE}]
            /\ Initialized(detector', analyzer')
    /\ image_analysis' = Pending
    /\ similarity_results' = Pending
    /\ metadata_analysis' = Pending
    /\ fraud_decision' = Pending
    /\ computed' = Pending
    /\ returned' = Pending
    /\ pc' = "image"
    /\ UNCHANGED << env, nfts, ans, history, focus, batch, extract, conc, fallback, listener >>

\* _analyze_image_with_gemini up to requests.get in _download_image
ImageStage ==
    /\ pc = "image"
    /\ IF detector.gemini_analyzer
       THEN pc' = "wait_download" /\ UNCHANGED image_analysis
       ELSE pc' = "similarity" /\ image_analysis' = AnalyzerNotAvailableResult
    /\ UNCHANGED << detector, analyzer, env, nfts, call, run, similarity_results,
                    metadata_analysis, fraud_decision, computed, returned, ans,
                    history, focus, batch, extract, conc, fallback, listener >>

\* analyze_nft_image after _download_image returned image_data
AfterDownload(image_data) ==
    IF ~image_data
    THEN /\ image_analysis' = _create_error_analysis_result("Failed to download or process image")
         /\ pc' = "similarity"
    ELSE IF ~analyzer.gemini_chat
    THEN /\ image_analysis' = _create_error_analysis_result("Gemini chat model not available")
         /\ pc' = "similarity"
    ELSE /\ UNCHANGED image_analysis
         /\ pc' = "wait_vision"

\* the image host answers requests.get
DownloadRespond ==
    /\ pc = "wait_download"
    /\ \E a \in DownloadAnswers(focus) :
         /\ Replay("download", a)
         /\ Record("download", a)
         /\ AfterDownload(a = "ok")
    /\ UNCHANGED << detector, analyzer, env, nfts, call, run, similarity_results,
                    metadata_analysis, fraud_decision, computed, returned,
                    history, focus, batch, extract, conc, fallback, listener >>

\* requests.get(image_url, timeout=30) gives up
DownloadTimeout ==
    /\ pc = "wait_download"
    /\ Replay("download", "timeout")
    /\ Record("download", "timeout")
    /\ AfterDownload(FALSE)
    /\ UNCHANGED << detector, analyzer, env, nfts, call, run, similarity_results,
                    metadata_analysis, fraud_decision, computed, returned,
                    history, focus, batch, extract, conc, fallback, listener >>

\* the embedding step giving up with the dimension of a full embedding
WithFallbackEmbedding_dimension(structured_analysis) ==
    Update(structured_analysis, [embedding |-> List(<< >>), embedding_dimension |-> Num(1)])

\* gemini_image_analyzer.py:142-151 and 157-167: _generate_fallback_embedding
\* is not a method of GeminiImageAnalyzer, the AttributeError is caught
WithFallbackEmbedding(structured_analysis) ==
    Update(structured_analysis, [embedding |-> List(<< >>), embedding_dimension |-> Num(0)])

WithEmbedding(structured_analysis, embedding) ==
    Update(structured_analysis,
           [embedding |-> List(embedding), embedding_dimension |-> Num(Len(embedding))])

\* gemini_chat.ainvoke answers: the response is parsed and the embedding
\* of the description is asked for
VisionRespond ==
    /\ pc = "wait_vision"
    /\ \E a \in VisionAnswers(focus) :
         /\ Replay("vision", a)
         /\ Record("vision", a)
         /\ IF a.raises
            THEN image_analysis' = AnalyzeImageErrorResult /\ pc' = "similarity"
            ELSE LET structured_analysis == _parse_gemini_response(a.text)
                 IN  IF analyzer.embeddings /\ Truthy(Get(structured_analysis, "description", NoneV))
                     THEN image_analysis' = structured_analysis /\ pc' = "wait_embed"
                     ELSE /\ image_analysis' =
                               IF Truthy(Get(structured_analysis, "description", NoneV))
                               THEN WithFallbackEmbedding(structured_analysis)
                               ELSE structured_analysis
                          /\ pc' = "similarity"
    /\ UNCHANGED << detector, analyzer, env, nfts, call, run, similarity_results,
                    metadata_analysis, fraud_decision, computed, returned,
                    history, focus, batch, extract, conc, fallback, listener >>

\* embeddings.aembed_query answers
EmbedRespond ==
    /\ pc = "wait_embed"
    /\ \E a \in EmbedAnswers(focus) :
         /\ Replay("embed", a)
         /\ Record("embed", a)
         /\ image_analysis' = IF a.raises THEN WithFallbackEmbedding(image_analysis)
                              ELSE WithEmbedding(image_analysis, a.vec)
    /\ pc' = "similarity"
    /\ UNCHANGED << detector, analyzer, env, nfts, call, run, similarity_results,
                    metadata_analysis, fraud_decision, computed, returned,
                    history, focus, batch, extract, conc, fallback, listener >>

\* _check_similarity up to db.execute
SimilarityStage ==
    /\ pc = "similarity"
    /\ IF ~Truthy(Get(image_analysis, "embedding", NoneV))
       THEN /\ similarity_results' = ZeroSimilarity
            /\ pc' = "metadata"
            /\ UNCHANGED ans
       ELSE \E a \in DbAnswers(focus) :
              /\ Replay("db", a)
              /\ Record("db", a)
              /\ CASE a = "no_dependencies" ->
                        similarity_results' = ZeroSimilarity /\ pc' = "metadata"
                   [] a = "no_session" ->
                        /\ similarity_results' = ZeroSimilarityError("Database connection not available")
                        /\ pc' = "metadata"
                   [] OTHER ->
                        UNCHANGED similarity_results /\ pc' = "wait_query"
    /\ UNCHANGED << detector, analyzer, env, nfts, call, run, image_analysis,
                    metadata_analysis, fraud_decision, computed, returned,
                    history, focus, batch, extract, conc, fallback, listener >>

\* the database answers the query
QueryRespond ==
    /\ pc = "wait_query"
    /\ \E a \in QueryAnswers(focus) :
         /\ Replay("query", a)
         /\ Record("query", a)
         /\ IF a = "raises" \/ QueryRaises(nfts)
            THEN similarity_results' = ZeroSimilarityError("Database search failed")
            ELSE \E rows \in QueryResults(nfts, image_analysis.embedding.v) :
                   similarity_results' = SimilarityOf(rows)
    /\ pc' = "metadata"
    /\ UNCHANGED << detector, analyzer, env, nfts, call, run, image_analysis,
                    metadata_analysis, fraud_decision, computed, returned,
                    history, focus, batch, extract, conc, fallback, listener >>

\* _analyze_metadata up to self.llm.ainvoke
MetadataStage ==
    /\ pc = "metadata"
    /\ IF detector.llm
       THEN pc' = "wait_metadata" /\ UNCHANGED metadata_analysis
       ELSE pc' = "decision" /\ metadata_analysis' = NoModelMetadata
    /\ UNCHANGED << detector, analyzer, env, nfts, call, run, image_analysis,
                    similarity_results, fraud_decision, computed, returned, ans,
                    history, focus, batch, extract, conc, fallback, listener >>

MetadataRespond ==
    /\ pc = "wait_metadata"
    /\ \E a \in MetadataAnswers(focus) :
         /\ Replay("metadata", a)
         /\ Record("metadata", a)
         /\ metadata_analysis' = MetadataFromResponse(a)
    /\ pc' = "decision"
    /\ UNCHANGED << detector, analyzer, env, nfts, call, run, image_analysis,
                    similarity_results, fraud_decision, computed, returned,
                    history, focus, batch, extract, conc, fallback, listener >>

\* _make_llm_fraud_decision up to self.llm.ainvoke
DecisionStage ==
    /\ pc = "decision"
    /\ IF detector.llm
       THEN pc' = "wait_decision" /\ UNCHANGED fraud_decision
       ELSE /\ pc' = "assemble"
            /\ fraud_decision' =
                 NoModelDecision(image_analysis, similarity_results, metadata_analysis)
    /\ UNCHANGED << detector, analyzer, env, nfts, call, run, image_analysis,
                    similarity_results, metadata_analysis, computed, returned, ans,
                    history, focus, batch, extract, conc, fallback, listener >>

DecisionRespond ==
    /\ pc = "wait_decision"
    /\ \E a \in DecisionAnswers(focus) :
         /\ Replay("decision", a)
         /\ Record("decision", a)
         /\ fraud_decision' =
              DecisionFromResponse(a, image_analysis, similarity_results, metadata_analysis)
    /\ pc' = "assemble"
    /\ UNCHANGED << detector, analyzer, env, nfts, call, run, image_analysis,
                    similarity_results, metadata_analysis, computed, returned,
                    history, focus, batch, extract, conc, fallback, listener >>

\* fraud_detector.py:163-197 and 792: the detector returns its result
Assemble ==
    /\ pc = "assemble"
    /\ computed' = DetectorResult(image_analysis, similarity_results, metadata_analysis,
                                  fraud_decision, run)
    /\ pc' = "persist"
    /\ UNCHANGED << detector, analyzer, env, nfts, call, run, image_analysis,
                    similarity_results, metadata_analysis, fraud_decision, returned,
                    ans, history, focus, batch, extract, conc, fallback, listener >>

\* fraud_detector.py:794-837: the write-back and the return
Persist ==
    /\ pc = "persist"
    /\ IF call.nft_id # NoId /\ call.db_session
       THEN \E a \in PersistAnswers(focus) :
              /\ Replay("persist", a)
              /\ Record("persist", a)
              /\ LET out == WriteBack(computed, call.nft_id, nfts, a, env.pgvector, run)
                 IN  returned' = out.result /\ nfts' = out.table
       ELSE returned' = computed /\ UNCHANGED << nfts, ans >>
    /\ pc' = "done"
    /\ UNCHANGED << detector, analyzer, env, call, run, image_analysis,
                    similarity_results, metadata_analysis, fraud_decision, computed,
                    history, focus, batch, extract, conc, fallback, listener >>

VerdictOf(d) ==
    [ is_fraud |-> Get(d, "is_fraud", NoneV),
      confidence_score |-> Get(d, "confidence_score", NoneV),
      flag_type |-> Get(d, "flag_type", NoneV) ]

\* the caller has the result; the next call may start
Return ==
    /\ pc = "done"
    /\ history' = Append(history,
          [ verdict |-> VerdictOf(returned),
            record |-> IF call.nft_id \in DOMAIN nfts
                       THEN VerdictOf(nfts[call.nft_id].analysis_details)
                       ELSE VerdictOf(<< >>) ])
    /\ pc' = "idle"
    /\ UNCHANGED << detector, analyzer, env, nfts, call, run, image_analysis,
                    similarity_results, metadata_analysis, fraud_decision, computed,
                    returned, ans, focus, batch, extract, conc, fallback, listener >>

Next ==
    \/ Start
    \/ ImageStage
    \/ DownloadRespond
    \/ DownloadTimeout
    \/ VisionRespond
    \/ EmbedRespond
    \/ SimilarityStage
    \/ QueryRespond
    \/ MetadataStage
    \/ MetadataRespond
    \/ DecisionStage
    \/ DecisionRespond
    \/ Assemble
    \/ Persist
    \/ Return

Spec == Init /\ [][Next]_vars

\* calls of batch_analyze_and_embed alone
BatchInit ==
    /\ Init
    /\ focus = "image"
    /\ env = [google_api_key |-> TRUE, pgvector |-> TRUE]
    /\ nfts = [id \in {Subject} \cup Others |-> NullRow(id)]

BatchSpec == BatchInit /\ [][BatchCall \/ BatchTask \/ BatchReturn]_vars

\* calls of extract_image_description alone
ExtractSpec == BatchInit /\ [][ExtractCall \/ ExtractRespond \/ ExtractFail]_vars

---------------------------------------------------------------------------
(* fraud_detector.py: two calls of the module-level analyze_nft_for_fraud  *)
(* running as tasks of one event loop, for two different NFTs.  A task     *)
(* gives way to the other one at its awaits only; the locals of a call are *)
(* its own, unified_fraud_detector and the nfts table are shared, and each *)
(* caller passes a session of its own (api/nft.py:192-205).                *)

\* the database and the image host answer; the embedding may fail
ConcImages ==
    { _create_error_analysis_result("Failed to download or process image") }
    \cup { WithEmbedding(_parse_gemini_response(a.text), <<0>>) : a \in NarrowVision }

ConcTables ==
    { t \in [ Tasks -> UNION { {NullRow(c), VectorRow(c, <<0>>)} : c \in Tasks } ] :
        \A c \in Tasks : t[c] \in {NullRow(c), VectorRow(c, <<0>>)} }

\* fraud_detector.py:788: the call of task c, for the NFT with id c
ConcStart(c) ==
    /\ conc.pc[c] = "idle"
    /\ conc' = [conc EXCEPT !.pc[c] = IF conc.unified_fraud_detector.initialized
                                      THEN "image" ELSE "initialize"]
    /\ UNCHANGED << pipeline, batch, extract, fallback, listener >>

\* initialize, lines 75-86: the model is constructed, or is not
ConcInitializeLlm(c) ==
    /\ conc.pc[c] = "initialize"
    /\ \E llm \in BOOLEAN :
         conc' = [conc EXCEPT !.pc[c] = "initialized",
                              !.unified_fraud_detector.llm = llm]
    /\ UNCHANGED << pipeline, batch, extract, fallback, listener >>

\* initialize, lines 88-126, after the awaits
ConcInitialized(c) ==
    /\ conc.pc[c] = "initialized"
    /\ conc' = [conc EXCEPT !.pc[c] = "image",
                            !.unified_fraud_detector.initialized = TRUE]
    /\ UNCHANGED << pipeline, batch, extract, fallback, listener >>

ConcImage(c) ==
    /\ conc.pc[c] = "image"
    /\ \E ia \in ConcImages :
         conc' = [conc EXCEPT !.pc[c] = "similarity", !.image_analysis[c] = ia]
    /\ UNCHANGED << pipeline, batch, extract, fallback, listener >>

\* _check_similarity reads the table as it is when the query runs
ConcSimilarity(c) ==
    /\ conc.pc[c] = "similarity"
    /\ LET ia == conc.image_analysis[c]
       IN  \E sr \in IF ~Truthy(Get(ia, "embedding", NoneV)) THEN {ZeroSimilarity}
                     ELSE IF QueryRaises(conc.table)
                     THEN {ZeroSimilarityError("Database search failed")}
                     ELSE {SimilarityOf(rows) : rows \in QueryResults(conc.table, ia.embedding.v)} :
             conc' = [conc EXCEPT !.pc[c] = "metadata", !.similarity_results[c] = sr]
    /\ UNCHANGED << pipeline, batch, extract, fallback, listener >>

ConcMetadata(c) ==
    /\ conc.pc[c] = "metadata"
    /\ \E ma \in IF conc.unified_fraud_detector.llm
                 THEN {MetadataFromResponse(a) : a \in NarrowMetadata}
                 ELSE {NoModelMetadata} :
         conc' = [conc EXCEPT !.pc[c] = "decision", !.metadata_analysis[c] = ma]
    /\ UNCHANGED << pipeline, batch, extract, fallback, listener >>

\* _make_llm_fraud_decision and lines 163-197
ConcDecision(c) ==
    /\ conc.pc[c] = "decision"
    /\ LET ia == conc.image_analysis[c]
           sr == conc.similarity_results[c]
           ma == conc.metadata_analysis[c]
       IN  \E fd \in IF conc.unified_fraud_detector.llm
                     THEN {DecisionFromResponse(a, ia, sr, ma) : a \in NarrowDecisions}
                     ELSE {NoModelDecision(ia, sr, ma)} :
             conc' = [conc EXCEPT !.pc[c] = "persist",
                                  !.result[c] = DetectorResult(ia, sr, ma, fd, c)]
    /\ UNCHANGED << pipeline, batch, extract, fallback, listener >>

\* lines 794-837: no await between the lookup and the commit
ConcPersist(c) ==
    /\ conc.pc[c] = "persist"
    /\ LET NoFailure == [lookup_raises |-> FALSE, commit_raises |-> FALSE,
                         rollback_raises |-> FALSE]
           out == WriteBack(conc.result[c], c, conc.table, NoFailure, conc.pgvector, c)
       IN  conc' = [conc EXCEPT !.pc[c] = "done",
                                !.returned[c] = out.result,
                                !.table = out.table,
                                !.wrote[c] = {id \in Tasks : out.table[id] # conc.table[id]}]
    /\ UNCHANGED << pipeline, batch, extract, fallback, listener >>

\* the fallback heuristics alone
FallbackSpec == BatchInit /\ [][FallbackNoModel \/ FallbackParseFailure]_vars

\* the event listener alone
ListenerSpec ==
    BatchInit /\ [][ \/ Deliver
                     \/ \E t \in 1..MaxEvents :
                          \/ ProcessStart(t)
                          \/ GetNftData(t)
                          \/ AnalysisEnds(t) ]_vars

\* two concurrent calls alone
ConcInit ==
    /\ focus = "image"
    /\ env = [google_api_key |-> TRUE, pgvector |-> TRUE]
    /\ detector = [llm |-> FALSE, gemini_analyzer |-> FALSE, initialized |-> FALSE]
    /\ analyzer = [gemini_chat |-> FALSE, embeddings |-> FALSE, initialized |-> FALSE]
    /\ nfts = [id \in {Subject} \cup Others |-> NullRow(id)]
    /\ call = [nft_id |-> NoId, db_session |-> FALSE]
    /\ pc = "idle"
    /\ run = 0
    /\ image_analysis = Pending
    /\ similarity_results = Pending
    /\ metadata_analysis = Pending
    /\ fraud_decision = Pending
    /\ computed = Pending
    /\ returned = Pending
    /\ ans = NoAnswers
    /\ history = << >>
    /\ batch = BatchIdle
    /\ extract = ExtractIdle
    /\ fallback = FallbackIdle
    /\ listener = ListenerIdle
    /\ \E pgvector \in BOOLEAN, table \in ConcTables :
         conc = [ConcIdle EXCEPT !.pgvector = pgvector, !.table = table]

ConcSpec ==
    ConcInit /\ [][ \E c \in Tasks :
      \/ ConcStart(c)
      \/ ConcInitializeLlm(c)
      \/ ConcInitialized(c)
      \/ ConcImage(c)
      \/ ConcSimilarity(c)
      \/ ConcMetadata(c)
      \/ ConcDecision(c)
      \/ ConcPersist(c) ]_vars

---------------------------------------------------------------------------
(* Properties *)

Decided == pc \in {"assemble", "persist", "done"}

AtDecisionMaker == pc \in {"decision", "wait_decision", "assemble"}

Enveloped == pc \in {"persist", "done"}

\* C1: decision consistency.  No decision the Decision Maker produces, on
\* any path, has confidence_score >= 0.7 with recommendation FLAG or BLOCK
\* and is_fraud false, nor confidence_score < 0.3 with recommendation
\* ALLOW and is_fraud true.
C1_DecisionConsistency ==
    Decided =>
      LET confidence_score == NumVal(Get(fraud_decision, "confidence_score", Num(0)))
          recommendation == Get(fraud_decision, "recommendation", NoneV)
          is_fraud == Get(fraud_decision, "is_fraud", NoneV)
      IN  /\ ~ ( /\ confidence_score >= 700
                 /\ recommendation \in {Str("FLAG"), Str("BLOCK")}
                 /\ is_fraud = Bool(FALSE) )
          /\ ~ ( /\ confidence_score < 300
                 /\ recommendation = Str("ALLOW")
                 /\ is_fraud = Bool(TRUE) )

\* the model answered is_fraud false, confidence 0.7, FLAG, and the
\* decision was repaired
C1_Witness ==
    /\ pc = "assemble"
    /\ ans.decision = { Bare(Verdict(Bool(FALSE), Num(700), Str("FLAG"), NoneV)) }
    /\ fraud_decision.recommendation = Str("FLAG")
    /\ fraud_decision.is_fraud = Bool(TRUE)

\* the decision comes from one of the fallback paths: no language model,
\* or the heuristic used for an empty or unparsable response
FallbackPath == ~detector.llm \/ "fallback_used" \in DOMAIN fraud_decision

\* C2: fallback boundedness.  Every decision produced by a fallback path
\* (no language model, empty response, unparsable response) has
\* confidence_score <= 0.8.
C2_FallbackBounded ==
    Decided /\ FallbackPath =>
      NumVal(fraud_decision.confidence_score) <= FallbackCap

IndicatorComplete(x) ==
    /\ IsDict(x)
    /\ {"detected", "confidence", "evidence"} \subseteq DOMAIN x.v
    /\ IsBool(x.v.detected)
    /\ x.v.confidence.t = "num"
    /\ x.v.confidence.v >= 0 /\ x.v.confidence.v <= 1000
    /\ IsStr(x.v.evidence)
    /\ x.v.evidence.v # ""

IndicatorsComplete(fi) ==
    /\ IsDict(fi)
    /\ DOMAIN fi.v = RequiredIndicators
    /\ \A n \in RequiredIndicators : IndicatorComplete(fi.v[n])

\* C3: indicator completeness.  Every image analysis result that reaches
\* the Decision Maker or the envelope has a fraud_indicators map with
\* exactly the seven required indicators, each with a boolean detected, a
\* confidence in [0,1] and a non-empty evidence.
C3_IndicatorCompleteness ==
    /\ AtDecisionMaker => IndicatorsComplete(Get(image_analysis, "fraud_indicators", NoneV))
    /\ Enveloped =>
         IndicatorsComplete(computed.analysis_details.image_analysis.fraud_indicators)

ImageAnalysisFields ==
    { "description", "artistic_style", "fraud_indicators", "overall_fraud_score",
      "risk_level", "recommendation", "embedding", "embedding_dimension" }

EnvelopeComplete(result) ==
    /\ {"is_fraud", "confidence_score", "flag_type", "reason", "analysis_details"}
         \subseteq DOMAIN result
    /\ { "image_analysis", "similarity_results", "metadata_analysis", "llm_decision",
         "analysis_timestamp" } \subseteq DOMAIN result.analysis_details
    /\ ImageAnalysisFields \subseteq DOMAIN result.analysis_details.image_analysis
    /\ IndicatorsComplete(result.analysis_details.image_analysis.fraud_indicators)

\* C4: the call never raises and, for every combination of stage
\* failures, returns an envelope with is_fraud, confidence_score,
\* flag_type, reason and analysis_details holding a schema-complete
\* image_analysis, similarity_results, metadata_analysis, llm_decision and
\* analysis_timestamp.
C4_CompleteEnvelope == pc = "done" => EnvelopeComplete(returned)

\* the calls are about the NFT whose record is in the store
PersistedSubject == call.nft_id = Subject /\ call.db_session /\ Subject \in DOMAIN nfts

\* C5: idempotence per NFT.  Two calls in a row for the same persisted NFT,
\* with the same inputs and the same answers of the external services,
\* return the same verdict (is_fraud, confidence_score, flag_type) and
\* leave the record with the same verdict as the first call did.
C5_Idempotent ==
    Len(history) >= 2 /\ PersistedSubject =>
      /\ history[2].verdict = history[1].verdict
      /\ history[2].record = history[1].record

AfterSimilarity ==
    pc \in {"metadata", "wait_metadata", "decision", "wait_decision", "assemble",
            "persist", "done"}

SimilarIds(sr) == { sr.similar_nfts[i].nft_id : i \in DOMAIN sr.similar_nfts }

\* C6: self-match exclusion.  The similarity results of an NFT never
\* contain the NFT's own id, also when its record already holds an
\* embedding in the store.
C6_NoSelfMatch == AfterSimilarity => Subject \notin SimilarIds(similarity_results)

\* the column embedding_vector of a row: empty when it is NULL
EmbeddingColumn(table, id) ==
    IF id \in DOMAIN table /\ "embedding_vector" \in DOMAIN table[id]
    THEN { table[id].embedding_vector }
    ELSE {}

\* C7: the write-back stores the embedding only if it is non-empty: a call
\* that ends with an empty embedding leaves the stored embedding_vector of
\* the record as it was.
C7_EmptyEmbeddingNotStored ==
    [][ ( /\ pc = "persist"
          /\ ~Truthy(computed.analysis_details.image_analysis.embedding) )
        => EmbeddingColumn(nfts', Subject) = EmbeddingColumn(nfts, Subject) ]_vars

\* C8: persistence does not affect the returned envelope: what the call
\* returns is the result the detector computed, whether there is no
\* persistence handle, the write-back succeeds, or it fails at any step.
C8_EnvelopeUnaffected == pc = "done" => returned = computed

ExternalWaits ==
    {"wait_download", "wait_vision", "wait_embed", "wait_query", "wait_metadata",
     "wait_decision"}

\* the steps the program takes by itself, and the only external call that
\* is given a timeout (requests.get, gemini_image_analyzer.py:328)
ProgramStep ==
    \/ ImageStage
    \/ SimilarityStage
    \/ MetadataStage
    \/ DecisionStage
    \/ Assemble
    \/ Persist
    \/ Return

FairSpec ==
    /\ Spec
    /\ WF_vars(ProgramStep)
    /\ WF_vars(DownloadRespond \/ DownloadTimeout)

\* C9: every call eventually returns an envelope, even if an external call
\* of a stage never responds: each is bounded by a timeout.
C9_EventuallyReturns == (pc \in ExternalWaits) ~> (pc = "done")

RECURSIVE NonIncreasing(_)
NonIncreasing(similar_nfts) ==
    \/ Len(similar_nfts) < 2
    \/ /\ similar_nfts[1].similarity >= similar_nfts[2].similarity
       /\ NonIncreasing(Tail(similar_nfts))

\* C10: similarity result invariant.  similar_nfts is sorted by
\* non-increasing similarity, max_similarity is the similarity of the first
\* entry or 0.0 when there is none, and is_duplicate is true exactly when
\* max_similarity > 0.95.
C10_SimilarityResult ==
    AfterSimilarity =>
      LET sr == similarity_results
      IN  /\ NonIncreasing(sr.similar_nfts)
          /\ sr.max_similarity =
               IF sr.similar_nfts # << >> THEN sr.similar_nfts[1].similarity ELSE 0
          /\ sr.is_duplicate <=> sr.max_similarity > 950

\* the query returned a record at 0.95 and a record at 0.7
C10_Witness ==
    /\ pc = "metadata"
    /\ Len(similarity_results.similar_nfts) = 2
    /\ similarity_results.similar_nfts[1].similarity = 950
    /\ similarity_results.similar_nfts[2].similarity = 700
    /\ ~similarity_results.is_duplicate

IsZeroResult(sr) ==
    /\ sr.similar_nfts = << >>
    /\ sr.max_similarity = 0
    /\ sr.is_duplicate = FALSE
    /\ sr.similarity_count = 0

\* C11: similarity search is advisory.  When the image analysis carries no
\* embedding, or the database layer is unavailable, or the query raises,
\* _check_similarity returns the zero result and the pipeline goes on to
\* the metadata stage.
C11_SimilarityAdvisory ==
    [][ ( \/ /\ pc = "similarity"
             /\ pc' # "similarity"
             /\ \/ ~Truthy(Get(image_analysis, "embedding", NoneV))
                \/ ans'.db \in { {"no_dependencies"}, {"no_session"} }
          \/ /\ pc = "wait_query"
             /\ pc' # "wait_query"
             /\ (ans'.query = {"raises"} \/ QueryRaises(nfts)) )
        => IsZeroResult(similarity_results') /\ pc' = "metadata" ]_vars

\* the query raised over a store that holds a record next to the subject,
\* and the call went on to its decision
C11_Witness ==
    /\ pc = "assemble"
    /\ run = 1
    /\ ans.query = {"raises"}
    /\ \E id \in Others : EmbeddingColumn(nfts, id) = { <<0>> }
    /\ IsZeroResult(similarity_results)
    /\ "error" \in DOMAIN similarity_results

\* the image stage has returned its result
ImageDone == pc \in {"similarity", "wait_query"} \/ AfterSimilarity

\* the entries of the fraud_indicators of an image result
IndicatorsOf(ia) ==
    LET fi == Get(ia, "fraud_indicators", Dict(<< >>))
    IN  IF IsDict(fi) THEN fi.v ELSE << >>

\* the indicators whose detected is true
MarkedDetected(fi) ==
    { n \in DOMAIN fi : IsDict(fi[n]) /\ Get(fi[n].v, "detected", NoneV) = Bool(TRUE) }

\* C12: score derivation.  In every image analysis result, whichever path
\* produced it, overall_fraud_score is the maximum confidence among the
\* indicators marked detected, and 0.0 when none is detected.
C12_ScoreDerivation ==
    ImageDone =>
      LET fi == IndicatorsOf(image_analysis)
          marked == MarkedDetected(fi)
          confidence(n) == Get(fi[n].v, "confidence", Num(0))
          score == Get(image_analysis, "overall_fraud_score", NoneV)
      IN  /\ IsNumber(score)
          /\ IF marked = {}
             THEN NumVal(score) = 0
             ELSE /\ \A n \in marked : IsNumber(confidence(n))
                  /\ NumVal(score) = SetMax({ NumVal(confidence(n)) : n \in marked })

\* C13: risk level derivation.  In every image analysis result, whichever
\* path produced it, risk_level is high iff overall_fraud_score >= 0.7,
\* medium iff 0.3 <= overall_fraud_score < 0.7 and low otherwise; no other
\* value occurs.
C13_RiskLevelDerivation ==
    ImageDone =>
      LET score == NumVal(Get(image_analysis, "overall_fraud_score", Num(0)))
          risk_level == Get(image_analysis, "risk_level", NoneV)
      IN  /\ risk_level \in {Str("high"), Str("medium"), Str("low")}
          /\ risk_level = Str("high") <=> score >= 700
          /\ risk_level = Str("medium") <=> (score >= 300 /\ score < 700)

\* ten times the combined risk 0.5*image + 0.3*similarity + 0.2*metadata of
\* the three stage results
TenfoldRisk ==
    5 * NumVal(Get(image_analysis, "overall_fraud_score", Num(0)))
    + 3 * similarity_results.max_similarity
    + 2 * NumVal(Get(metadata_analysis, "metadata_risk", Num(0)))

\* C14: fallback verdict threshold.  For every decision produced by the
\* fallback heuristic (no language model, empty response, unparsable
\* response), is_fraud is true exactly when combined_risk > 0.7.
C14_FallbackThreshold ==
    Decided /\ FallbackPath =>
      fraud_decision.is_fraud = Bool(TenfoldRisk > 7000)

\* no model call has been attempted
NoModelCall ==
    ans.vision = {} /\ ans.embed = {} /\ ans.metadata = {} /\ ans.decision = {}

\* metadata, decision and model calls of the run without credentials
UnconfiguredRest ==
    /\ metadata_analysis.quality_score = Num(700)
    /\ metadata_analysis.metadata_risk = Num(100)
    /\ metadata_analysis.suspicious_indicators = List(<< >>)
    /\ fraud_decision.confidence_score = Num(20)
    /\ fraud_decision.is_fraud = Bool(FALSE)
    /\ fraud_decision.flag_type = NoneV
    /\ "risk_breakdown" \in DOMAIN fraud_decision
    /\ NoModelCall

\* C15: with no model credentials at any call site, a run yields the
\* "Gemini analyzer not available" image result with fraud score 0.0, the
\* static metadata default (0.7, 0.1, no indicators) and the fallback
\* decision from those defaults (combined_risk 0.02, is_fraud false,
\* flag_type null), and no model call is attempted.
C15_Unconfigured ==
    ~env.google_api_key /\ Decided =>
      /\ image_analysis.description = AnalyzerNotAvailableResult.description
      /\ image_analysis.overall_fraud_score = Num(0)
      /\ UnconfiguredRest

\* C16: batch size mismatch.  batch_analyze_and_embed called with input
\* lists of different lengths signals an explicit mismatched-length error
\* to its caller and returns no list of per-item results.
C16_BatchMismatch ==
    /\ batch.pc # "idle"
    /\ LengthsDiffer(batch.image_urls, batch.nft_ids, batch.metadata_list)
    => batch.pc = "raised"

\* the decision model was invoked in this call and a is what came back
DecisionAnswered(a) == Decided /\ detector.llm /\ ans.decision = {a}

NoJsonVerdict(a) ==
    /\ ~a.raises
    /\ \/ \A i \in DOMAIN a.text.toks : a.text.toks[i] # "O"
       \/ ~IsDict(a.text.obj)

\* C18: when the decision model's response is empty or no JSON verdict can
\* be extracted from it, the decision is exactly the fallback heuristic's
\* decision for the same image, similarity and metadata results.
C18_ParseFailureFallback ==
    \A a \in WideDecisions :
      DecisionAnswered(a) /\ NoJsonVerdict(a) =>
        fraud_decision =
          _get_safe_fallback_decision(image_analysis, similarity_results,
                                      metadata_analysis)

C18_Witness ==
    /\ pc = "assemble"
    /\ DecisionAnswered(Answer(Text(<<"FJ", "X", "F">>,
                                    Verdict(Bool(FALSE), Num(800), Str("BLOCK"), Num(2)),
                                    {})))
    /\ "fallback_used" \in DOMAIN fraud_decision
    /\ fraud_decision.is_fraud = Bool(TRUE)

\* the response is prose around a valid JSON verdict, fenced or bare
ProseWrapped(a) ==
    /\ ~a.raises
    /\ \E i \in DOMAIN a.text.toks : a.text.toks[i] = "P"
    /\ Len(SelectSeq(a.text.toks, LAMBDA k : k = "O")) = 1
    /\ \A i \in DOMAIN a.text.toks : a.text.toks[i] # "X"
    /\ IsDict(a.text.obj)
    /\ IsStr(Get(a.text.obj.v, "recommendation", NoneV))

\* C19: when the decision response is a valid JSON verdict surrounded by
\* prose, in a markdown code fence or bare between the first '{' and the
\* last '}', the decision is that verdict (after the consistency repair)
\* and not the fallback heuristic's.
C19_ProseWrapper ==
    \A a \in WideDecisions :
      DecisionAnswered(a) /\ ProseWrapped(a) =>
        /\ "fallback_used" \notin DOMAIN fraud_decision
        /\ fraud_decision.reason = a.text.obj.v.reason
        /\ fraud_decision.flag_type = a.text.obj.v.flag_type

FlagTypes == {Num(1), Num(2), Num(3), Num(4), NoneV}

\* C20: in every envelope the call returns, on any decision path,
\* confidence_score lies in [0.0, 1.0] and flag_type is one of 1, 2, 3, 4
\* or null.
C20_FieldRanges ==
    pc = "done" =>
      /\ IsNumber(returned.confidence_score)
      /\ NumVal(returned.confidence_score) >= 0
      /\ NumVal(returned.confidence_score) <= 1000
      /\ returned.flag_type \in FlagTypes

\* the metadata stage of the current run has finished
AfterMetadata == pc \in {"decision", "wait_decision", "assemble", "persist", "done"}

\* C21: when no language model is configured, the metadata analysis is the
\* static neutral default (quality_score 0.7, metadata_risk 0.1, no
\* suspicious indicators) and no model call is attempted for it.
C21_MetadataWithoutModel ==
    AfterMetadata /\ ~detector.llm =>
      /\ metadata_analysis.quality_score = Num(700)
      /\ metadata_analysis.metadata_risk = Num(100)
      /\ metadata_analysis.suspicious_indicators = List(<< >>)
      /\ DOMAIN metadata_analysis =
           {"quality_score", "metadata_risk", "suspicious_indicators"}
      /\ ans.metadata = {}

C21_Witness ==
    /\ pc = "done"
    /\ run = MaxRuns
    /\ ~detector.llm
    /\ metadata_analysis.quality_score = Num(700)
    /\ ans.metadata = {}

\* the metadata model was invoked in this call and a is what came back
MetadataAnswered(a) == AfterMetadata /\ detector.llm /\ ans.metadata = {a}

FallbackNotes ==
    { Str("Empty LLM response"), Str("LLM response parsing failed") }

\* C22: when a model is configured and its response is empty or cannot be
\* parsed into a JSON object, the metadata analysis is the neutral
\* fallback: quality_score 0.5, metadata_risk 0.2 and exactly one
\* suspicious indicator, which notes the fallback; the stage does not
\* raise.
C22_MetadataDegraded ==
    \A a \in WideMetadata :
      MetadataAnswered(a) /\ NoJsonVerdict(a) =>
        /\ metadata_analysis.quality_score = Num(500)
        /\ metadata_analysis.metadata_risk = Num(200)
        /\ IsList(metadata_analysis.suspicious_indicators)
        /\ Len(metadata_analysis.suspicious_indicators.v) = 1
        /\ metadata_analysis.suspicious_indicators.v[1] \in FallbackNotes

C22_Witness ==
    /\ pc = "decision"
    /\ MetadataAnswered(Bare(List(<< Num(1) >>)))
    /\ metadata_analysis.suspicious_indicators =
         List(<< Str("LLM response parsing failed") >>)

\* the description model has answered the call
DescriptionAnswered == extract.pc \in {"returned", "raised"} /\ extract.answered

\* C23: extract_image_description raises exactly when the model's
\* description, after trimming, is empty or shorter than 10 characters; a
\* description of 10 or more characters is returned.
C23_DescriptionLengthGuard ==
    DescriptionAnswered =>
      /\ extract.pc = "raised" <=> Len(Strip(extract.content)) < 10
      /\ extract.pc = "returned" => extract.out = Strip(extract.content)

EmbedRaises == [raises |-> TRUE, vec |-> << >>]

\* the embedding and its dimension as fraud_detector.py:186-187 reads them
EmbeddingOf(ia) == Get(ia, "embedding", List(<< >>))
DimensionOf(ia) == Get(ia, "embedding_dimension", Num(0))

\* C24: when the embedding call fails, the fallback attempt failing too,
\* the image result has an empty embedding and embedding_dimension 0, and
\* the analyzer returns a result; in every image result
\* embedding_dimension is the length of embedding.
C24_EmbeddingDegrade ==
    ImageDone =>
      /\ image_analysis # Pending
      /\ IsList(EmbeddingOf(image_analysis))
      /\ DimensionOf(image_analysis) = Num(Len(EmbeddingOf(image_analysis).v))
      /\ ans.embed = {EmbedRaises} =>
           /\ image_analysis.embedding = List(<< >>)
           /\ image_analysis.embedding_dimension = Num(0)

C24_Witness ==
    /\ pc = "done"
    /\ ans.embed = {EmbedRaises}
    /\ image_analysis.description = Str("description from the model")
    /\ image_analysis.embedding = List(<< >>)
    /\ image_analysis.embedding_dimension = Num(0)

ConcFinished == \A c \in Tasks : conc.pc[c] = "done"

\* C25: in every interleaving of two calls for two different NFTs that
\* share the global detector, each call writes only the record of its own
\* NFT, and after both finish each record holds the verdict that its own
\* call returned.
C25_ConcurrentIndependence ==
    /\ \A c \in Tasks : conc.wrote[c] \subseteq {c}
    /\ ConcFinished =>
         \A c \in Tasks :
           VerdictOf(conc.table[c].analysis_details) = VerdictOf(conc.returned[c])

\* a cancelled call that leaves what it has computed on the record
Cancel_persisting ==
    /\ pc \in ExternalWaits
    /\ pc' = "cancelled"
    /\ nfts' = IF call.nft_id \in DOMAIN nfts
               THEN [nfts EXCEPT ![call.nft_id].analysis_details =
                       [status |-> Str("partial"), image_analysis |-> image_analysis]]
               ELSE nfts
    /\ UNCHANGED << detector, analyzer, env, call, run, image_analysis,
                    similarity_results, metadata_analysis, fraud_decision, computed,
                    returned, ans, history, focus, batch, extract, conc, fallback, listener >>

\* the caller cancels the task: CancelledError is raised at the await the
\* call is suspended in; it is not an Exception, so no except clause of
\* fraud_detector.py catches it and the call ends there
Cancel ==
    /\ pc \in ExternalWaits
    /\ pc' = "cancelled"
    /\ UNCHANGED << detector, analyzer, env, nfts, call, run, image_analysis,
                    similarity_results, metadata_analysis, fraud_decision, computed,
                    returned, ans, history, focus, batch, extract, conc, fallback, listener >>

\* calls that their caller may cancel
CancelSpec == Init /\ [][Next \/ Cancel]_vars

\* what the stages of the running call have produced so far comes in the
\* order image analysis, similarity search, metadata analysis, decision,
\* envelope
StageOrder ==
    /\ similarity_results # Pending => image_analysis # Pending
    /\ metadata_analysis # Pending => similarity_results # Pending
    /\ fraud_decision # Pending => metadata_analysis # Pending
    /\ computed # Pending => fraud_decision # Pending

\* C26: within one run the stages complete in the order image analysis,
\* similarity search, metadata analysis, decision; the decision is made
\* with the outputs of the three earlier stages; and the NFT record is
\* written only once the decision and the envelope exist, so a run that is
\* cancelled before the decision leaves the record as it was.
C26_StageOrder ==
    [][ /\ StageOrder'
        /\ fraud_decision' # fraud_decision /\ fraud_decision' # Pending =>
             /\ image_analysis # Pending
             /\ similarity_results # Pending
             /\ metadata_analysis # Pending
        /\ nfts' # nfts =>
             /\ pc = "persist"
             /\ fraud_decision # Pending
             /\ computed # Pending
        /\ pc' = "cancelled" => nfts' = nfts ]_vars

C26_Witness ==
    /\ pc = "cancelled"
    /\ run = 1
    /\ call.nft_id = Subject
    /\ call.db_session
    /\ metadata_analysis # Pending
    /\ fraud_decision = Pending
    /\ nfts[Subject].analysis_details = NullRow(Subject).analysis_details

\* the vision model was invoked in this call and a is what came back
VisionAnswered(a) == ImageDone /\ ans.vision = {a}

\* the image result is the one of the keyword heuristic for this text
IsHeuristicResult(ia, text) ==
    LET h == _extract_structured_info_from_text(text)
    IN  /\ Get(ia, "fraud_indicators", NoneV) = h.fraud_indicators
        /\ Get(ia, "overall_fraud_score", NoneV) = h.overall_fraud_score
        /\ Get(ia, "description", NoneV) = h.description

\* C27: the image response is parsed by brace-span extraction, then
\* fenced-block extraction, then prefix/suffix stripping; whenever one of
\* them parses a JSON object, an object with no fields included, the
\* result is built from that object and not by the keyword heuristic; the
\* heuristic is used when all three fail, and it always gives a result.
C27_ParsingOrder ==
    \A a \in WideVision :
      VisionAnswered(a) /\ ~a.raises =>
        LET j == ExtractJson(a.text)
        IN  /\ j.ok /\ IsDict(j.value) => ~IsHeuristicResult(image_analysis, a.text)
            /\ ~j.ok => IsHeuristicResult(image_analysis, a.text)

\* a fallback heuristic has been applied
FallbackDecided == fallback.path # "none"

\* C28: a fallback decision, without a model or after a parse failure,
\* never marks an NFT as fraud without a flag type: is_fraud true implies
\* flag_type 1 or 2, and flag_type 1 implies is_fraud true, for all image
\* scores, similarities and metadata risks in [0, 1].
C28_FraudHasFlag ==
    FallbackDecided =>
      /\ fallback.decision.is_fraud = Bool(TRUE) =>
           fallback.decision.flag_type \in {Num(1), Num(2)}
      /\ fallback.decision.flag_type = Num(1) =>
           fallback.decision.is_fraud = Bool(TRUE)

C28_Witness ==
    /\ fallback.path = "parse_failure"
    /\ fallback.decision.is_fraud = Bool(TRUE)
    /\ fallback.decision.flag_type = Num(2)

\* C29: in the fallback heuristics the similarity alone gives no fraud
\* verdict: with an image fraud score of 0, for every similarity and
\* metadata risk in [0, 1], an exact duplicate included, the decision has
\* is_fraud false and flag_type null.
C29_SimilarityAloneNoFraud ==
    FallbackDecided /\ fallback.image_risk = 0 =>
      /\ fallback.decision.is_fraud = Bool(FALSE)
      /\ fallback.decision.flag_type = NoneV

C29_Witness ==
    /\ fallback.path = "no_model"
    /\ fallback.image_risk = 0
    /\ fallback.similarity_risk = 1000
    /\ fallback.metadata_risk = 1000
    /\ fallback.decision.is_fraud = Bool(FALSE)

\* the callbacks of the event id that went past the test of processed_events
Processing(id) ==
    { t \in DOMAIN listener.tasks :
        /\ EventId(listener.tasks[t].event_data) = id
        /\ listener.tasks[t].pc \notin {"called", "skipped"} }

\* C30: over any sequence and interleaving of process_nft_event callbacks
\* the fraud analysis is started at most once per event id; the event id
\* is recorded as processed before its analysis runs, so that an event
\* whose analysis failed is not analysed again when it is delivered again.
C30_EventDeduplication ==
    \A id \in EventIds :
      /\ listener.started[id] <= 1
      /\ Cardinality(Processing(id)) <= 1
      /\ Processing(id) # {} => id \in listener.processed_events

C30_Witness ==
    \E t1, t2 \in DOMAIN listener.tasks :
      /\ t1 < t2
      /\ EventId(listener.tasks[t1].event_data) = EventId(listener.tasks[t2].event_data)
      /\ listener.tasks[t1].event_data # listener.tasks[t2].event_data
      /\ listener.tasks[t1].pc = "failed"
      /\ listener.tasks[t2].pc = "skipped"
      /\ listener.started[EventId(listener.tasks[t1].event_data)] = 1

====
